---------------------------- MODULE Spec2Model ----------------------------
(***************************************************************************)
(* A model of get_apt_groups_ttp.py: the normaliser of the MITRE document  *)
(* collection, the two keyword searches with their report writers, the     *)
(* batch alias lookup, and the command-line driver around them.            *)
(*                                                                         *)
(* A text is a sequence of one-character strings; a dict is a function     *)
(* whose DOMAIN is the set of keys it holds, so a missing key is a key     *)
(* outside the DOMAIN; a missing DataFrame cell is the value NaN.          *)
(***************************************************************************)
EXTENDS Integers, Sequences, FiniteSets, TLC

VARIABLES
    argv_given,   \* len(sys.argv) > 1
    args,         \* the argparse.Namespace
    choice,       \* the interactive menu's choice
    fs,           \* which of ./jsons, the tracker file and the matrix file exist
    objects,      \* data['objects'] of enterprise-attack.json
    workbook,     \* the sheets of 'APT Groups and Operations.xlsx', in sheet_names order
    groups,       \* the list get_all_groups_from_mitre returned
    keywords,     \* the keywords parameter of the two searches
    apt_aliases,  \* the apt_aliases parameter of get_groups_ttps_from_mitre
    pc,           \* the position of the program
    idx,          \* the index of the running for loop
    result,       \* the local variable result of the running search
    reports,      \* the two report files
    outcome,      \* what get_groups_ttps_from_mitre did for each alias it attempted
    out,          \* the lines printed
    io            \* the file-system and network operations performed, in order

vars == <<argv_given, args, choice, fs, objects, workbook, groups, keywords,
          apt_aliases, pc, idx, result, reports, outcome, out, io>>

-----------------------------------------------------------------------------
(* Bounds of the model *)

MaxGroups == 2
MaxKeywords == 2
MaxAliases == 3
MaxObjects == 3
MaxSheets == 11
MaxFilledSheets == 2
MaxWrongInputs == 1

-----------------------------------------------------------------------------
(* Python values *)

None == <<[type |-> "NoneType"]>>
NoneArg == << <<"None">> >>
NaN == <<"NaN">>

SeqsUpTo(S, n) == UNION {[1..k -> S] : k \in 0..n}

\* ord(c) for the characters the model uses
Ord(c) ==
    CASE c = " " -> 32
      [] c = "," -> 44
      [] c = "-" -> 45
      [] c = "A" -> 65
      [] c = "B" -> 66
      [] c = "a" -> 97
      [] c = "b" -> 98
      [] c = "c" -> 99

\* str.lower on one character
LowerChar(c) ==
    CASE c = "A" -> "a"
      [] c = "B" -> "b"
      [] OTHER -> c

\* str.lower
Lower(s) == [i \in DOMAIN s |-> LowerChar(s[i])]

\* sub in s, for two str
Contains(sub, s) ==
    \E i \in 0..(Len(s) - Len(sub)) : SubSeq(s, i + 1, i + Len(sub)) = sub

\* s < t, for two str (code-point order)
RECURSIVE StrLess(_, _)
StrLess(s, t) ==
    IF t = <<>> THEN FALSE
    ELSE IF s = <<>> THEN TRUE
    ELSE IF Ord(Head(s)) # Ord(Head(t)) THEN Ord(Head(s)) < Ord(Head(t))
    ELSE StrLess(Tail(s), Tail(t))

StrLessEq(s, t) == s = t \/ StrLess(s, t)

\* ', '.join(xs)
RECURSIVE StrJoin(_)
StrJoin(xs) ==
    IF xs = <<>> THEN <<>>
    ELSE IF Len(xs) = 1 THEN xs[1]
    ELSE xs[1] \o <<",", " ">> \o StrJoin(Tail(xs))

\* print(...)
Say(line) == out' = Append(out, line)

Line(text) == [text |-> text]

\* print(e) in an except clause of the function fn
Caught(fn) == [text |-> "exception", fn |-> fn]

-----------------------------------------------------------------------------
(* search_groups_from_mitre *)

NoFile == [exists |-> FALSE]

\* the lambda of line 170 without the two calls of lower()
MitreMatchCaseSensitive(word, x) == Contains(word, x["description"])

\* the lambda of line 170
MitreMatch(word, x) == Contains(Lower(word), Lower(x["description"]))

\* list(filter(lambda x: word.lower() in x['description'].lower(), groups))
MitreFilter(word, gs) == SelectSeq(gs, LAMBDA x : MitreMatch(word, x))

\* the filter of line 170 raises: groups is None (TypeError) or a record has
\* no 'description' key (KeyError)
MitreFilterRaises(gs) ==
    \/ gs = None
    \/ \E i \in DOMAIN gs : "description" \notin DOMAIN gs[i]

\* one row of pd.DataFrame(result)[['name', 'aliases', 'description']] after
\* df['aliases'] = df['aliases'].str.join(', ')
MitreRow(g) ==
    [name |-> g["name"], aliases |-> StrJoin(g["aliases"]),
     description |-> g["description"]]

\* df.sort_values(by='name') returns a sorted copy, which line 176 drops: df
\* itself keeps the order of result
MitreSortValues(df) == df

\* df.to_excel(file, sheet_name='APT Groups', index=False): the header in row
\* 1 and the rows of df in the rows after it
ToExcel(df) == [exists |-> TRUE, rows |-> df, last_row |-> Len(df) + 1]

\* worksheet.autofilter(f"A1:C{str(df.shape[0])}"): the last row of the range
MitreAutofilterLastRow(df) == Len(df)

\* worksheet.conditional_format(f"A1:C{str(df.shape[0] + 1)}", ...): the last row
MitreBorderLastRow(df) == Len(df) + 1

\* lines 177-188: the report file
MitreWorkbook(df) ==
    [col \in DOMAIN ToExcel(df) \cup {"autofilter_last", "border_last"} |->
        CASE col = "autofilter_last" -> MitreAutofilterLastRow(df)
          [] col = "border_last" -> MitreBorderLastRow(df)
          [] OTHER -> ToExcel(df)[col]]

\* lines 166-168
MitreBegin ==
    /\ pc = "mitre_begin"
    /\ Say(Line("mitre: searching"))
    /\ result' = <<>>
    /\ idx' = 1
    /\ pc' = "mitre_loop"
    /\ UNCHANGED <<argv_given, args, choice, fs, objects, workbook, groups,
                   keywords, apt_aliases, reports, outcome, io>>

\* lines 169-172, one keyword; lines 193-194 when the filter raises
MitreSearchWord ==
    /\ pc = "mitre_loop"
    /\ idx <= Len(keywords)
    /\ IF MitreFilterRaises(groups)
       THEN /\ Say(Caught("search_groups_from_mitre"))
            /\ pc' = "mitre_return"
            /\ UNCHANGED <<result, idx>>
       ELSE /\ result' = result \o MitreFilter(keywords[idx], groups)
            /\ idx' = idx + 1
            /\ UNCHANGED <<pc, out>>
    /\ UNCHANGED <<argv_given, args, choice, fs, objects, workbook, groups,
                   keywords, apt_aliases, reports, outcome, io>>

\* lines 173-192
MitreReport ==
    /\ pc = "mitre_loop"
    /\ idx > Len(keywords)
    /\ IF result # <<>>
       THEN LET df == MitreSortValues([i \in DOMAIN result |-> MitreRow(result[i])])
            IN /\ reports' = [reports EXCEPT !.mitre = MitreWorkbook(df)]
               /\ io' = Append(io, <<"write", "APT Groups list from MITRE.xlsx">>)
               /\ Say(Line("mitre: found"))
       ELSE /\ Say(Line("mitre: not found"))
            /\ UNCHANGED <<reports, io>>
    /\ pc' = "mitre_return"
    /\ UNCHANGED <<argv_given, args, choice, fs, objects, workbook, groups,
                   keywords, apt_aliases, idx, result, outcome>>

-----------------------------------------------------------------------------
(* search_groups_from_tracker *)

\* df_name.sheet_names[1:10]: the slice bounds
SliceStart == 1
SliceStop == 10

\* the 1-indexed positions of the sheets in sheet_names[1:10]
SheetsRead(wb) ==
    {i \in DOMAIN wb : SliceStart + 1 <= i /\ i <= SliceStop}

Column(sheet, col) == [i \in DOMAIN sheet |-> sheet[i][col]]

\* the .str accessor of a column raises AttributeError unless the column holds
\* objects: a column read with rows, all of them blank, is a float64 column
StrAccessorRaises(column) ==
    column # <<>> /\ \A i \in DOMAIN column : column[i] = NaN

\* one element of Series.str.contains(word, case=False) on an object column:
\* NaN for a blank cell
StrContains(cell, word) ==
    IF cell = NaN THEN "NaN"
    ELSE IF Contains(Lower(word), Lower(cell)) THEN "True" ELSE "False"

\* one element of left | right for two object Series: the right operand's NaN
\* is filled with False before the operation, and where the left operand is
\* NaN the result is NaN, which the mask takes as False
SeriesOr(left, right) ==
    IF left = "NaN" THEN FALSE ELSE (left = "True" \/ right = "True")

\* the mask of lines 222-223 for one row
TrackerMatch(word, row) ==
    SeriesOr(StrContains(row.targets, word), StrContains(row.comment, word))

\* data[mask] of lines 222-223
TrackerFilter(word, data) == SelectSeq(data, LAMBDA row : TrackerMatch(word, row))

\* lines 218-223: df_search after all the keywords
RECURSIVE TrackerSheetSearch(_, _)
TrackerSheetSearch(words, data) ==
    IF words = <<>> THEN <<>>
    ELSE TrackerFilter(Head(words), data) \o TrackerSheetSearch(Tail(words), data)

\* lines 216-223 raise for this sheet
TrackerSheetRaises(words, data) ==
    /\ words # <<>>
    /\ \/ StrAccessorRaises(Column(data, "targets"))
       \/ StrAccessorRaises(Column(data, "comment"))

\* the order of two keys under sort_values(by='Common Name'): ascending, NaN last
KeyLessEq(a, b) ==
    IF b = NaN THEN TRUE
    ELSE IF a = NaN THEN FALSE
    ELSE StrLessEq(a, b)

RemoveAt(df, i) == SubSeq(df, 1, i - 1) \o SubSeq(df, i + 1, Len(df))

\* result.sort_values(by='Common Name'): the sort is not stable, so every
\* ascending arrangement of the rows is a possible outcome
RECURSIVE TrackerSortValues(_)
TrackerSortValues(df) ==
    IF df = <<>> THEN {<<>>}
    ELSE UNION {
        {<<df[i]>> \o rest : rest \in TrackerSortValues(RemoveAt(df, i))} :
            i \in {k \in DOMAIN df : \A j \in DOMAIN df :
                        KeyLessEq(df[k].common_name, df[j].common_name)}}

\* result.fillna('-')
FillNa(df) ==
    [i \in DOMAIN df |->
        [col \in DOMAIN df[i] |-> IF df[i][col] = NaN THEN <<"-">> ELSE df[i][col]]]

\* worksheet.autofilter(f"A1:D{str(result.shape[0])}"): the last row of the range
TrackerAutofilterLastRow(df) == Len(df)

\* worksheet.conditional_format(f"A1:D{str(result.shape[0] + 1)}", ...): the last row
TrackerBorderLastRow(df) == Len(df) + 1

\* lines 228-238: the report file
TrackerWorkbook(df) ==
    [col \in DOMAIN ToExcel(df) \cup {"autofilter_last", "border_last"} |->
        CASE col = "autofilter_last" -> TrackerAutofilterLastRow(df)
          [] col = "border_last" -> TrackerBorderLastRow(df)
          [] OTHER -> ToExcel(df)[col]]

\* lines 211-214
TrackerBegin ==
    /\ pc = "tracker_begin"
    /\ IF fs.tracker
       THEN /\ out' = out \o <<Line("tracker: searching")>>
            /\ io' = Append(io, <<"read", "APT Groups and Operations.xlsx">>)
            /\ result' = <<>>
            /\ idx' = SliceStart + 1
            /\ pc' = "tracker_loop"
       ELSE /\ out' = out \o <<Line("tracker: searching"),
                                 Caught("search_groups_from_tracker")>>
            /\ pc' = "tracker_return"
            /\ UNCHANGED <<io, result, idx>>
    /\ UNCHANGED <<argv_given, args, choice, fs, objects, workbook, groups,
                   keywords, apt_aliases, reports, outcome>>

\* lines 215-224, one sheet; lines 243-244 when the sheet raises
TrackerReadSheet ==
    /\ pc = "tracker_loop"
    /\ idx \in SheetsRead(workbook)
    /\ io' = Append(io, <<"read_sheet", ToString(idx)>>)
    /\ IF TrackerSheetRaises(keywords, workbook[idx])
       THEN /\ Say(Caught("search_groups_from_tracker"))
            /\ pc' = "tracker_return"
            /\ UNCHANGED <<result, idx>>
       ELSE /\ result' = result \o TrackerSheetSearch(keywords, workbook[idx])
            /\ idx' = idx + 1
            /\ UNCHANGED <<pc, out>>
    /\ UNCHANGED <<argv_given, args, choice, fs, objects, workbook, groups,
                   keywords, apt_aliases, reports, outcome>>

\* lines 225-242
TrackerReport ==
    /\ pc = "tracker_loop"
    /\ idx \notin SheetsRead(workbook)
    /\ IF result # <<>>
       THEN \E sorted \in TrackerSortValues(result) :
               /\ reports' = [reports EXCEPT !.tracker = TrackerWorkbook(FillNa(sorted))]
               /\ io' = Append(io, <<"write", "APT Groups list from APT Tracker.xlsx">>)
               /\ Say(Line("tracker: found"))
       ELSE /\ Say(Line("tracker: not found"))
            /\ UNCHANGED <<reports, io>>
    /\ pc' = "tracker_return"
    /\ UNCHANGED <<argv_given, args, choice, fs, objects, workbook, groups,
                   keywords, apt_aliases, idx, result, outcome>>

-----------------------------------------------------------------------------
(* get_groups_ttps_from_mitre *)

\* the lambda of line 265 with the alias sought in the entries, not among them
TtpsMatchSubstring(apt_alias, x) ==
    \E i \in DOMAIN x["aliases"] : Contains(Lower(apt_alias), Lower(x["aliases"][i]))

\* the lambda of line 265
TtpsMatch(apt_alias, x) ==
    Lower(apt_alias) \in {Lower(x["aliases"][i]) : i \in DOMAIN x["aliases"]}

\* list(filter(lambda x: apt_alias.lower() in [...], groups))
TtpsFilter(apt_alias, gs) == SelectSeq(gs, LAMBDA x : TtpsMatch(apt_alias, x))

\* lines 267-268 raise: apt_group[0] has no 'external_references' key
\* (KeyError) or an empty list under it (IndexError)
TtpsReferenceRaises(x) ==
    \/ "external_references" \notin DOMAIN x
    \/ x["external_references"] = <<>>

\* line 269: json_name
TtpsJsonName(x) == <<x["external_references"][1].external_id, "-enterprise-layer.json">>

\* line 270: url
TtpsUrl(x) == <<x["external_references"][1].url, "/", TtpsJsonName(x)>>

\* lines 263-276, one alias; lines 278-279 when a line of the body raises.
\* requests.get, open and write succeed or raise as the network and the disk
\* decide.
TtpsLookup ==
    /\ pc = "ttps_loop"
    /\ idx <= Len(apt_aliases)
    /\ LET apt_alias == apt_aliases[idx]
           searching == [text |-> "ttps: searching", alias |-> apt_alias]
           raise(did, ops) ==
               /\ out' = out \o <<searching, Caught("get_groups_ttps_from_mitre")>>
               /\ outcome' = Append(outcome, did)
               /\ io' = io \o ops
               /\ pc' = "ttps_return"
               /\ UNCHANGED idx
       IN IF groups = None
          THEN raise([alias |-> apt_alias, what |-> "no groups"], <<>>)
          ELSE LET apt_group == TtpsFilter(apt_alias, groups)
               IN IF apt_group = <<>>
                  THEN /\ out' = out \o <<searching,
                                  [text |-> "ttps: not found", alias |-> apt_alias]>>
                       /\ outcome' = Append(outcome,
                                  [alias |-> apt_alias, what |-> "not found"])
                       /\ idx' = idx + 1
                       /\ UNCHANGED <<pc, io>>
                  ELSE IF TtpsReferenceRaises(apt_group[1])
                  THEN raise([alias |-> apt_alias, what |-> "no reference",
                              record |-> apt_group[1]], <<>>)
                  ELSE \/ /\ fs.jsons
                          /\ out' = out \o <<searching, Line("ttps: found")>>
                          /\ outcome' = Append(outcome,
                                  [alias |-> apt_alias, what |-> "downloaded",
                                   record |-> apt_group[1]])
                          /\ io' = io \o << <<"get", TtpsUrl(apt_group[1])>>,
                                             <<"write", TtpsJsonName(apt_group[1])>> >>
                          /\ idx' = idx + 1
                          /\ UNCHANGED pc
                       \/ raise([alias |-> apt_alias, what |-> "download failed",
                                 record |-> apt_group[1]],
                                << <<"get", TtpsUrl(apt_group[1])>> >>)
    /\ UNCHANGED <<argv_given, args, choice, fs, objects, workbook, groups,
                   keywords, apt_aliases, result, reports>>

\* line 277
TtpsReturn ==
    /\ pc = "ttps_loop"
    /\ idx > Len(apt_aliases)
    /\ pc' = "ttps_return"
    /\ UNCHANGED <<argv_given, args, choice, fs, objects, workbook, groups,
                   keywords, apt_aliases, idx, result, reports, outcome, out, io>>

-----------------------------------------------------------------------------
(* get_all_groups_from_mitre *)

\* the lambda of lines 295-296 without the test of revoked
IsActiveGroupKeepingRevoked(x) ==
    /\ x["type"] = "intrusion-set"
    /\ ~("x_mitre_deprecated" \in DOMAIN x /\ x["x_mitre_deprecated"])

\* the lambda of lines 295-296
IsActiveGroup(x) ==
    /\ x["type"] = "intrusion-set"
    /\ ~ \/ ("x_mitre_deprecated" \in DOMAIN x /\ x["x_mitre_deprecated"])
         \/ ("revoked" \in DOMAIN x /\ x["revoked"])

\* lines 292-300: the list of the active groups, or None (after printing the
\* exception) when the file cannot be opened
GetAllGroups ==
    /\ pc = "get_groups"
    /\ IF fs.matrix
       THEN /\ groups' = SelectSeq(objects, IsActiveGroup)
            /\ io' = Append(io, <<"read", "enterprise-attack.json">>)
            /\ UNCHANGED out
       ELSE /\ groups' = None
            /\ Say(Caught("get_all_groups_from_mitre"))
            /\ UNCHANGED io
    /\ pc' = "got_groups"
    /\ UNCHANGED <<argv_given, args, choice, fs, objects, workbook, keywords,
                   apt_aliases, idx, result, reports, outcome>>

-----------------------------------------------------------------------------
(* parse_arguments and main *)

Given(arg) == arg # NoneArg

\* line 69: no selection among -g, -k and -u
NoSelection(a) == ~Given(a.groups) /\ ~Given(a.keywords) /\ ~a.update

\* line 71: -g together with -k
Conflict(a) == Given(a.groups) /\ Given(a.keywords)

\* lines 68-72 without the elif of line 71
ParserErrorWithoutConflict(given, a) == given /\ NoSelection(a)

\* lines 68-72: parser.error is called, which ends the process (SystemExit is
\* no Exception, so line 368 does not catch it)
ParserError(given, a) == given /\ (NoSelection(a) \/ Conflict(a))

\* lines 364-366 with parse_arguments, lines 10-73
ParseArguments ==
    /\ pc = "start"
    /\ pc' = IF ParserError(argv_given, args) THEN "exit" ELSE "main"
    /\ UNCHANGED <<argv_given, args, choice, fs, objects, workbook, groups,
                   keywords, apt_aliases, idx, result, reports, outcome, out, io>>

\* lines 314-319
MainMkdir ==
    /\ pc = "main"
    /\ IF ~fs.jsons
       THEN /\ fs' = [fs EXCEPT !.jsons = TRUE]
            /\ io' = Append(io, <<"mkdir", "jsons">>)
       ELSE UNCHANGED <<fs, io>>
    /\ idx' = 1
    /\ pc' = "main_update"
    /\ UNCHANGED <<argv_given, args, choice, objects, workbook, groups, keywords,
                   apt_aliases, result, reports, outcome, out>>

\* line 316-319: the keys of files, in order
FileKeys == <<"tracker", "mitre">>

FileName(key) ==
    IF key = "tracker" THEN "APT Groups and Operations.xlsx" ELSE "enterprise-attack.json"

FileExists(f, key) == IF key = "tracker" THEN f.tracker ELSE f.matrix

\* update_apt_groups (lines 120-129) and update_matrix (lines 142-151): the
\* file is removed when it exists, then wget.download writes it (ok) or raises
UpdateOps(f, key) ==
    (IF FileExists(f, key) THEN << <<"remove", FileName(key)>> >> ELSE <<>>)
        \o << <<"download", FileName(key)>> >>

UpdateFs(f, key, ok) ==
    IF key = "tracker" THEN [f EXCEPT !.tracker = ok] ELSE [f EXCEPT !.matrix = ok]

UpdateLines(key, ok) ==
    <<[text |-> "downloading", file |-> FileName(key)]>>
        \o (IF ok THEN <<>> ELSE <<Caught("update")>>)

\* lines 320-322, one key of files
MainUpdate ==
    /\ pc = "main_update"
    /\ idx <= Len(FileKeys)
    /\ LET key == FileKeys[idx]
       IN IF ~FileExists(fs, key) \/ args.update
          THEN \E ok \in BOOLEAN :
                  /\ fs' = UpdateFs(fs, key, ok)
                  /\ io' = io \o UpdateOps(fs, key)
                  /\ out' = out \o UpdateLines(key, ok)
          ELSE UNCHANGED <<fs, io, out>>
    /\ idx' = idx + 1
    /\ UNCHANGED <<argv_given, args, choice, objects, workbook, groups, keywords,
                   apt_aliases, pc, result, reports, outcome>>

\* the lines the user may type at a prompt of the menu
MenuInputs == {"0", "1", "2", "3", "4", "5", "x"}

\* lines 323-330 and the branch of lines 331-349: one line typed at the prompt
MainMenu ==
    /\ pc = "main_update"
    /\ idx > Len(FileKeys)
    /\ ~argv_given
    /\ \E typed \in MenuInputs :
          IF typed = "x"
          THEN /\ Len(SelectSeq(out, LAMBDA l : l = Line("wrong input"))) < MaxWrongInputs
               /\ Say(Line("wrong input"))
               /\ UNCHANGED <<choice, pc>>
          ELSE /\ choice' = typed
               /\ pc' = CASE typed \in {"1", "2", "3"} -> "get_groups"
                           [] typed \in {"4", "5"} -> "menu_update"
                           [] OTHER -> "bye"
               /\ UNCHANGED out
    /\ UNCHANGED <<argv_given, args, fs, objects, workbook, groups, keywords,
                   apt_aliases, idx, result, reports, outcome, io>>

\* lines 342-345
MainMenuUpdate ==
    /\ pc = "menu_update"
    /\ LET key == IF choice = "4" THEN "tracker" ELSE "mitre"
       IN \E ok \in BOOLEAN :
             /\ fs' = UpdateFs(fs, key, ok)
             /\ io' = io \o UpdateOps(fs, key)
             /\ out' = out \o UpdateLines(key, ok)
    /\ pc' = "bye"
    /\ UNCHANGED <<argv_given, args, choice, objects, workbook, groups, keywords,
                   apt_aliases, idx, result, reports, outcome>>

\* lines 350-351
MainCommandLine ==
    /\ pc = "main_update"
    /\ idx > Len(FileKeys)
    /\ argv_given
    /\ pc' = "get_groups"
    /\ UNCHANGED <<argv_given, args, choice, fs, objects, workbook, groups,
                   keywords, apt_aliases, idx, result, reports, outcome, out, io>>

\* what input() may return at the prompts of lines 334, 337 and 340, split
\* at the commas and stripped
TypedKeywords == { << <<"A">> >>, << <<"c">> >> }
TypedGroups == { << <<"a", "B">> >>, << <<"c">>, <<"a", "b">> >> }

\* lines 331-341 (menu) and lines 352-358 (command line): the call made after
\* get_all_groups_from_mitre returned
MainDispatch ==
    /\ pc = "got_groups"
    /\ IF ~argv_given
       THEN CASE choice = "1" ->
                   /\ keywords' \in TypedKeywords
                   /\ pc' = "mitre_begin"
                   /\ UNCHANGED apt_aliases
              [] choice = "2" ->
                   /\ keywords' \in TypedKeywords
                   /\ pc' = "tracker_begin"
                   /\ UNCHANGED apt_aliases
              [] OTHER ->
                   /\ apt_aliases' \in TypedGroups
                   /\ pc' = "ttps_loop"
                   /\ UNCHANGED keywords
       ELSE IF Given(args.keywords)
       THEN /\ keywords' = args.keywords
            /\ pc' = IF args.mitre THEN "mitre_begin"
                      ELSE IF args.tracker THEN "tracker_begin" ELSE "bye"
            /\ UNCHANGED apt_aliases
       ELSE IF Given(args.groups)
       THEN /\ apt_aliases' = args.groups
            /\ pc' = "ttps_loop"
            /\ UNCHANGED keywords
       ELSE /\ pc' = "bye"
            /\ UNCHANGED <<keywords, apt_aliases>>
    /\ idx' = 1
    /\ UNCHANGED <<argv_given, args, choice, fs, objects, workbook, groups,
                   result, reports, outcome, out, io>>

\* the return of a search or of the lookup to main: line 355 after the call of
\* line 354, line 359 otherwise
MainReturn ==
    /\ pc \in {"mitre_return", "tracker_return", "ttps_return"}
    /\ pc' = IF pc = "mitre_return" /\ argv_given /\ args.tracker
             THEN "tracker_begin" ELSE "bye"
    /\ UNCHANGED <<argv_given, args, choice, fs, objects, workbook, groups,
                   keywords, apt_aliases, idx, result, reports, outcome, out, io>>

\* lines 347, 359 and 367
MainBye ==
    /\ pc = "bye"
    /\ Say(Line("Bye!"))
    /\ pc' = "done"
    /\ UNCHANGED <<argv_given, args, choice, fs, objects, workbook, groups,
                   keywords, apt_aliases, idx, result, reports, outcome, io>>

-----------------------------------------------------------------------------
(* The inputs *)

DefaultArgs ==
    [groups |-> NoneArg, keywords |-> NoneArg, mitre |-> TRUE, tracker |-> TRUE,
     update |-> FALSE]

NoReports == [mitre |-> NoFile, tracker |-> NoFile]

AllFiles == [jsons |-> TRUE, tracker |-> TRUE, matrix |-> TRUE]

\* keywords: one that differs in case from its occurrences, one of two
\* characters, one that occurs nowhere, and the empty one
KeywordSet == { <<"A">>, <<"a", "b">>, <<"c">>, <<>> }

DescriptionSet == { <<"a", "B">>, <<"b", "A", "b">>, <<"b">> }

GroupAliases(name) == IF name = <<"A">> THEN <<name, <<"a">> >> ELSE <<name>>

\* active groups as the searches meet them: with a description or without
SearchGroupSet ==
    {[type |-> "intrusion-set", name |-> n, aliases |-> GroupAliases(n),
      description |-> d] : n \in {<<"A">>, <<"B">>}, d \in DescriptionSet}
    \cup
    {[type |-> "intrusion-set", name |-> n, aliases |-> GroupAliases(n)] :
        n \in {<<"A">>, <<"B">>}}

Reference(id) ==
    <<[url |-> "https://attack.mitre.org/groups/" , external_id |-> id]>>

\* active groups as the alias lookup meets them: two that share an alias up to
\* case, and one without an external reference
LookupGroupSet ==
    { [type |-> "intrusion-set", name |-> <<"A">>, aliases |-> << <<"A", "b">> >>,
       external_references |-> Reference("G1")],
      [type |-> "intrusion-set", name |-> <<"B">>,
       aliases |-> << <<"a", "B">>, <<"c">> >>,
       external_references |-> Reference("G2")],
      [type |-> "intrusion-set", name |-> <<"b">>, aliases |-> << <<"b">> >>] }

AliasSet == { <<"a", "b">>, <<"A", "B">>, <<"A">>, <<"b">>, <<"c">> }

\* the objects of a document collection: every type with every state of the
\* two flags
FlagStates == {"absent", "true", "false"}

Object(type, deprecated, revoked) ==
    [key \in {"type"}
        \cup (IF deprecated = "absent" THEN {} ELSE {"x_mitre_deprecated"})
        \cup (IF revoked = "absent" THEN {} ELSE {"revoked"}) |->
        CASE key = "type" -> type
          [] key = "x_mitre_deprecated" -> (deprecated = "true")
          [] key = "revoked" -> (revoked = "true")]

ObjectSet ==
    {Object(t, d, r) : t \in {"intrusion-set", "malware"},
                       d \in FlagStates, r \in FlagStates}

Row(name, targets, comment) ==
    [common_name |-> name, toolset |-> NaN, targets |-> targets, comment |-> comment]

\* the tables of the tracker's sheets under their header row: rows with both
\* cells, with a blank Targets, with a blank Comment, with a blank Common Name
SheetSet ==
    { << Row(<<"A">>, <<"a", "B">>, <<"b">>) >>,
      << Row(<<"B">>, NaN, <<"a", "B">>), Row(<<"B">>, <<"b">>, <<"A", "b">>) >>,
      << Row(NaN, <<"b">>, <<"b">>) >>,
      << Row(<<"B">>, NaN, <<"A">>) >>,
      << Row(<<"A">>, <<"a", "B">>, NaN), Row(<<"B">>, <<"b">>, <<"c">>) >> }

\* the workbooks of up to sheets sheets of which at most filled hold rows
WorkbookSet(sheets, filled) ==
    UNION {
        {[i \in 1..n |-> IF i \in DOMAIN fill THEN fill[i] ELSE <<>>] :
            fill \in UNION {[at -> SheetSet] :
                at \in {a \in SUBSET (1..n) : Cardinality(a) <= filled}}}
        : n \in 0..sheets}

-----------------------------------------------------------------------------
(* The specifications *)

\* the state a function is entered in, apart from its parameters
Entered(at) ==
    /\ pc = at
    /\ argv_given = FALSE
    /\ args = DefaultArgs
    /\ choice = ""
    /\ fs = AllFiles
    /\ idx = 1
    /\ result = <<>>
    /\ reports = NoReports
    /\ outcome = <<>>
    /\ out = <<>>
    /\ io = <<>>

\* search_groups_from_mitre(groups, keywords)
InitMitre ==
    /\ Entered("mitre_begin")
    /\ groups \in SeqsUpTo(SearchGroupSet, MaxGroups)
    /\ keywords \in SeqsUpTo(KeywordSet, MaxKeywords)
    /\ objects = <<>>
    /\ workbook = <<>>
    /\ apt_aliases = <<>>

NextMitre == MitreBegin \/ MitreSearchWord \/ MitreReport

SpecMitre == InitMitre /\ [][NextMitre]_vars

\* search_groups_from_tracker(filename, keywords)
InitTracker ==
    /\ Entered("tracker_begin")
    /\ workbook \in WorkbookSet(MaxSheets, MaxFilledSheets)
    /\ keywords \in SeqsUpTo(KeywordSet \ {<<>>}, MaxKeywords)
    /\ groups = <<>>
    /\ objects = <<>>
    /\ apt_aliases = <<>>

NextTracker == TrackerBegin \/ TrackerReadSheet \/ TrackerReport

SpecTracker == InitTracker /\ [][NextTracker]_vars

\* either search
InitSearch == InitMitre \/ InitTracker

NextSearch ==
    \/ MitreBegin \/ MitreSearchWord \/ MitreReport
    \/ TrackerBegin \/ TrackerReadSheet \/ TrackerReport

SpecSearch == InitSearch /\ [][NextSearch]_vars

\* get_groups_ttps_from_mitre(groups, apt_aliases)
InitTtps ==
    /\ Entered("ttps_loop")
    /\ groups \in SeqsUpTo(LookupGroupSet, MaxGroups)
    /\ apt_aliases \in SeqsUpTo(AliasSet, MaxAliases)
    /\ keywords = <<>>
    /\ objects = <<>>
    /\ workbook = <<>>

NextTtps == TtpsLookup \/ TtpsReturn

SpecTtps == InitTtps /\ [][NextTtps]_vars

\* get_all_groups_from_mitre(filename)
InitNormalize ==
    /\ Entered("get_groups")
    /\ objects \in SeqsUpTo(ObjectSet, MaxObjects)
    /\ groups = None
    /\ keywords = <<>>
    /\ workbook = <<>>
    /\ apt_aliases = <<>>

NextNormalize == GetAllGroups

SpecNormalize == InitNormalize /\ [][NextNormalize]_vars

\* the command lines: each of -g and -k absent or given, the three flags
ArgsSet ==
    [groups : {NoneArg} \cup TypedGroups, keywords : {NoneArg} \cup TypedKeywords,
     mitre : BOOLEAN, tracker : BOOLEAN, update : BOOLEAN]

MainObjects ==
    << Object("malware", "absent", "absent"),
       [type |-> "intrusion-set", name |-> <<"A">>, aliases |-> << <<"a", "B">> >>,
        description |-> <<"b", "A", "b">>, external_references |-> Reference("G1")],
       [type |-> "intrusion-set", name |-> <<"B">>, aliases |-> << <<"c">> >>,
        description |-> <<"b">>, revoked |-> TRUE] >>

MainWorkbook ==
    << <<>>, << Row(<<"B">>, <<"b">>, <<"A", "b">>), Row(<<"A">>, <<"a", "B">>, NaN) >> >>

\* the whole program, from the command line on
InitMain ==
    /\ pc = "start"
    /\ argv_given \in BOOLEAN
    /\ args \in (IF argv_given THEN ArgsSet ELSE {DefaultArgs})
    /\ choice = ""
    /\ fs \in [jsons : BOOLEAN, tracker : BOOLEAN, matrix : BOOLEAN]
    /\ objects = MainObjects
    /\ workbook = MainWorkbook
    /\ groups = None
    /\ keywords = <<>>
    /\ apt_aliases = <<>>
    /\ idx = 1
    /\ result = <<>>
    /\ reports = NoReports
    /\ outcome = <<>>
    /\ out = <<>>
    /\ io = <<>>

NextMain ==
    \/ ParseArguments \/ MainMkdir \/ MainUpdate \/ MainMenu \/ MainMenuUpdate
    \/ MainCommandLine \/ GetAllGroups \/ MainDispatch \/ MainReturn \/ MainBye
    \/ MitreBegin \/ MitreSearchWord \/ MitreReport
    \/ TrackerBegin \/ TrackerReadSheet \/ TrackerReport
    \/ TtpsLookup \/ TtpsReturn

SpecMain == InitMain /\ [][NextMain]_vars

Spec == SpecMain

-----------------------------------------------------------------------------
(* What the claims speak of *)

\* two texts are equal up to the case of their letters
EqualIgnoringCase(a, b) ==
    Len(a) = Len(b) /\ \A k \in DOMAIN a : LowerChar(a[k]) = LowerChar(b[k])

\* the keyword occurs in the text as a substring, up to the case of the letters
OccursIn(word, text) ==
    \E i \in 0..(Len(text) - Len(word)) :
        EqualIgnoringCase(word, SubSeq(text, i + 1, i + Len(word)))

\* the elements of xs at the positions in at, in their order in xs
ElementsAt(xs, at) ==
    [k \in 1..Cardinality(at) |->
        xs[CHOOSE i \in at : Cardinality({j \in at : j < i}) = k - 1]]

Count(xs, x) == Cardinality({p \in DOMAIN xs : xs[p] = x})

Said(line) == \E p \in DOMAIN out : out[p] = line

SaidCaught == \E p \in DOMAIN out : out[p].text = "exception"

Described(x) == "description" \in DOMAIN x

AllDescribed == \A i \in DOMAIN groups : Described(groups[i])

\* the positions of the records whose description holds the keyword
Holding(word) ==
    {i \in DOMAIN groups :
        Described(groups[i]) /\ OccursIn(word, groups[i]["description"])}

\* the matches of the first n keywords, keyword after keyword
RECURSIVE MatchesOfFirst(_)
MatchesOfFirst(n) ==
    IF n = 0 THEN <<>>
    ELSE MatchesOfFirst(n - 1) \o ElementsAt(groups, Holding(keywords[n]))

\* C1: over records that all have a description, the matched sequence is the
\* concatenation, keyword after keyword, of the records in source order whose
\* description holds the keyword up to case; so a record that holds k of the
\* keywords is in it k times, and one that holds none is not in it.
C1_KeywordSearch ==
    (pc \in {"mitre_loop", "mitre_return"} /\ AllDescribed) =>
        /\ result = MatchesOfFirst(idx - 1)
        /\ pc = "mitre_return" =>
             /\ idx = Len(keywords) + 1
             /\ \A i \in DOMAIN groups :
                   Count(result, groups[i]) =
                       Cardinality({k \in DOMAIN keywords : i \in Holding(keywords[k])})
                           * Count(groups, groups[i])

\* a search over two described records ended with one of them matched by two
\* keywords, one of which differs from the description in case, and the
\* other record matched by none
C1_Witness ==
    /\ pc = "mitre_return"
    /\ AllDescribed
    /\ Len(groups) = 2
    /\ keywords = << <<"A">>, <<"a", "b">> >>
    /\ Count(result, groups[1]) = 2
    /\ Count(result, groups[2]) = 0
    /\ groups[2]["description"] = <<"b">>

\* C3: a search over a collection in which some record has no description
\* raises nothing, leaves that record out, and still reports every other
\* record whose description holds a keyword.
C3_MissingDescription ==
    (pc = "mitre_return" /\ ~AllDescribed) =>
        /\ ~SaidCaught
        /\ \A i \in DOMAIN groups : ~Described(groups[i]) => Count(result, groups[i]) = 0
        /\ \A i \in DOMAIN groups, k \in DOMAIN keywords :
              i \in Holding(keywords[k]) =>
                  /\ reports.mitre.exists
                  /\ \E r \in DOMAIN reports.mitre.rows :
                        /\ reports.mitre.rows[r].name = groups[i]["name"]
                        /\ reports.mitre.rows[r].description = groups[i]["description"]

\* C2: every requested alias is attempted, in order, whatever happened to
\* the aliases before it: when the lookup returns, each alias of the list has
\* its own outcome.
C2_EveryAliasAttempted ==
    pc = "ttps_return" =>
        /\ Len(outcome) = Len(apt_aliases)
        /\ \A i \in DOMAIN outcome : outcome[i].alias = apt_aliases[i]

\* the positions of the records with an entry of aliases equal to the alias up
\* to case
Bearing(alias) ==
    {j \in DOMAIN groups :
        \E k \in DOMAIN groups[j]["aliases"] :
            EqualIgnoringCase(groups[j]["aliases"][k], alias)}

First(at) == CHOOSE i \in at : \A j \in at : i <= j

Flag(x, key) == key \in DOMAIN x /\ x[key] = TRUE

Active ==
    {i \in DOMAIN objects :
        /\ objects[i]["type"] = "intrusion-set"
        /\ ~Flag(objects[i], "x_mitre_deprecated")
        /\ ~Flag(objects[i], "revoked")}

\* C7: the active set is the intrusion-set objects whose deprecated flag and
\* revoked flag are not present-and-true, in the order of the collection.
C7_Normalization ==
    pc = "got_groups" => groups = ElementsAt(objects, Active)

\* a collection of three objects was normalised to two different groups in
\* their order, the revoked intrusion-set between them left out
C7_Witness ==
    /\ pc = "got_groups"
    /\ Len(objects) = 3
    /\ Active = {1, 3}
    /\ objects[1] # objects[3]
    /\ objects[2]["type"] = "intrusion-set"
    /\ Flag(objects[2], "revoked")
    /\ ~Flag(objects[2], "x_mitre_deprecated")
    /\ groups = <<objects[1], objects[3]>>

\* the command line selects both -g and -k, or is not empty and selects none
\* of -g, -k and -u
BadSelection ==
    /\ argv_given
    /\ \/ args.groups # NoneArg /\ args.keywords # NoneArg
       \/ args.groups = NoneArg /\ args.keywords = NoneArg /\ ~args.update

\* C8: under a conflicting or incomplete selection the run ends in the
\* argument check: no directory is made, no file is removed, downloaded, read
\* or written, and nothing is searched.
C8_AbortBeforeIO ==
    BadSelection =>
        /\ pc \in {"start", "exit"}
        /\ io = <<>>
        /\ reports = NoReports
        /\ groups = None

\* the run ended in the argument check on -g with -k, where main would have
\* made the directory and downloaded both files
C8_Witness ==
    /\ pc = "exit"
    /\ args.groups # NoneArg
    /\ args.keywords # NoneArg
    /\ fs = [jsons |-> FALSE, tracker |-> FALSE, matrix |-> FALSE]

\* the rows are in ascending order of the column
Ascending(rows, col) ==
    \A i, j \in DOMAIN rows : i < j => StrLessEq(rows[i][col], rows[j][col])

\* C4: the rows of the knowledge-base report are in ascending order of name,
\* and the rows of the tracker report in ascending order of Common Name.
C4_ReportsSorted ==
    /\ reports.mitre.exists => Ascending(reports.mitre.rows, "name")
    /\ reports.tracker.exists => Ascending(reports.tracker.rows, "common_name")

\* a record of the knowledge base holds one of the keywords
MitreHasMatch == \E k \in DOMAIN keywords : Holding(keywords[k]) # {}

\* the cell is not blank and holds the keyword
CellHolds(cell, word) == cell # NaN /\ OccursIn(word, cell)

\* the row holds one of the keywords in Targets or in Comment
RowMatches(row) ==
    \E k \in DOMAIN keywords :
        CellHolds(row.targets, keywords[k]) \/ CellHolds(row.comment, keywords[k])

\* the sheets 2 to 10 of the workbook, 1-indexed
SheetsTwoToTen == {i \in DOMAIN workbook : 2 <= i /\ i <= 10}

TrackerHasMatch ==
    \E i \in SheetsTwoToTen : \E r \in DOMAIN workbook[i] : RowMatches(workbook[i][r])

\* C5: a search that returns has written its report and said 'found' when a
\* record or row matches a keyword, and has written no report and said 'not
\* found' when none does.
C5_ReportIffMatch ==
    /\ pc = "mitre_return" =>
          IF MitreHasMatch
          THEN reports.mitre.exists /\ Said(Line("mitre: found"))
          ELSE ~reports.mitre.exists /\ Said(Line("mitre: not found"))
    /\ pc = "tracker_return" =>
          IF TrackerHasMatch
          THEN reports.tracker.exists /\ Said(Line("tracker: found"))
          ELSE ~reports.tracker.exists /\ Said(Line("tracker: not found"))

\* C9: the tracker search reads the sheets 2 to 10 only: its result holds no
\* row that is in none of them, and holds every row of them that matches.
C9_SheetsTwoToTen ==
    /\ \A p \in DOMAIN io :
          io[p][1] = "read_sheet" =>
              \E i \in SheetsTwoToTen : io[p][2] = ToString(i)
    /\ pc \in {"tracker_loop", "tracker_return"} =>
          \A p \in DOMAIN result :
              \E i \in SheetsTwoToTen : \E r \in DOMAIN workbook[i] :
                  workbook[i][r] = result[p]
    /\ pc = "tracker_return" =>
          \A i \in SheetsTwoToTen : \A r \in DOMAIN workbook[i] :
              RowMatches(workbook[i][r]) => Count(result, workbook[i][r]) > 0

\* C10: in a report written, the autofilter range ends at the last populated
\* row, the row after the header and the n data rows, as the border range does.
C10_AutofilterFullRange ==
    \A source \in DOMAIN reports :
        reports[source].exists =>
            /\ reports[source].last_row = Len(reports[source].rows) + 1
            /\ reports[source].autofilter_last = reports[source].last_row
            /\ reports[source].border_last = reports[source].last_row

-----------------------------------------------------------------------------
(* What holds of the code where a statement above does not *)

\* a report is written only when a record or a row matches a keyword
ReportOnlyOnMatch ==
    /\ reports.mitre.exists => MitreHasMatch
    /\ reports.tracker.exists => TrackerHasMatch

\* the tracker search reads no sheet but the sheets 2 to 10, and its result
\* holds no row from elsewhere
SheetRangeOnly ==
    /\ \A p \in DOMAIN io :
          io[p][1] = "read_sheet" =>
              \E i \in SheetsTwoToTen : io[p][2] = ToString(i)
    /\ pc \in {"tracker_loop", "tracker_return"} =>
          \A p \in DOMAIN result :
              \E i \in SheetsTwoToTen : \E r \in DOMAIN workbook[i] :
                  workbook[i][r] = result[p]

\* the rows of the tracker report are in the ascending order sort_values gives,
\* blank names last
TrackerReportInSortOrder ==
    reports.tracker.exists =>
        \A i, j \in DOMAIN reports.tracker.rows :
            i < j => \/ reports.tracker.rows[j].common_name = <<"-">>
                     \/ StrLessEq(reports.tracker.rows[i].common_name,
                                  reports.tracker.rows[j].common_name)

=============================================================================
